---- MODULE Spec2Model ----
(***************************************************************************)
(* Model of the CrewHu survey pipeline (src/cleanjsondata.py) and of the   *)
(* ConnectWise field updater (src/updatelinks.py).                         *)
(*                                                                         *)
(* Text is a sequence of symbols.  A symbol is either one character        *)
(* (" ", "\n", "(", ")", ".", a digit, a quote, a name letter that occurs  *)
(* in no keyword) or one keyword of the notification sentences ("from",    *)
(* "gave a", "rating", ...) taken as a unit.  The literals of the regular  *)
(* expressions are sequences of these symbols, and the matcher below is    *)
(* the backtracking matcher of Python's re on such sequences: lazy groups  *)
(* try the shortest length first, greedy ones the longest, search tries    *)
(* the start positions left to right.                                      *)
(***************************************************************************)
EXTENDS Integers, Sequences, FiniteSets, TLC

VARIABLES emails, idx, surveys, missed, pc, sorted_entries, report,
          body, match_data, result,
          DRY_RUN, resp, patches, returned

vars == <<emails, idx, surveys, missed, pc, sorted_entries, report,
          body, match_data, result, DRY_RUN, resp, patches, returned>>

(***************************************************************************)
(* Strings                                                                 *)
(***************************************************************************)
Whitespace == {" ", "\n"}

Digits == {"0", "1", "2"}

DigitVal(d) == IF d = "0" THEN 0 ELSE IF d = "1" THEN 1 ELSE 2

\* str.lower() on a symbol: the keywords written with a capital fold to
\* the lower-case keyword, every other symbol is its own lower case.
Lower(s) ==
  IF s = "Rating" THEN "rating"
  ELSE IF s = "Ticket#" THEN "ticket#"
  ELSE IF s = "From" THEN "from"
  ELSE IF s = "Customer feedback:" THEN "customer feedback:"
  ELSE IF s = "Customer Feedback:" THEN "customer feedback:"
  ELSE IF s = "Latest" THEN "latest"
  ELSE IF s = "Survey" THEN "survey"
  ELSE IF s = "Crewhu" THEN "crewhu"
  ELSE IF s = "CrewHu" THEN "crewhu"
  ELSE s

\* Symbols whose first (last) character is no word character: what \b
\* looks at on the two sides of "Click here".
NonWordStart == Whitespace \cup {"(", ")", ".", "\"", "!"}

NonWordEnd == Whitespace \cup {"(", ")", ".", "\"", "!", "ticket#", "Ticket#", "Regards,",
                               "Customer feedback:", "Customer Feedback:", "customer feedback:"}

RECURSIVE LStrip(_)
LStrip(s) ==
  IF s = <<>> THEN <<>>
  ELSE IF Head(s) \in Whitespace THEN LStrip(Tail(s)) ELSE s

RECURSIVE RStrip(_)
RStrip(s) ==
  IF s = <<>> THEN <<>>
  ELSE IF s[Len(s)] \in Whitespace THEN RStrip(SubSeq(s, 1, Len(s) - 1)) ELSE s

\* str.strip()
Strip(s) == RStrip(LStrip(s))

RECURSIVE LStripQuote(_)
LStripQuote(s) ==
  IF s = <<>> THEN <<>>
  ELSE IF Head(s) = "\"" THEN LStripQuote(Tail(s)) ELSE s

RECURSIVE RStripQuote(_)
RStripQuote(s) ==
  IF s = <<>> THEN <<>>
  ELSE IF s[Len(s)] = "\"" THEN RStripQuote(SubSeq(s, 1, Len(s) - 1)) ELSE s

\* str.strip('"')
StripQuote(s) == RStripQuote(LStripQuote(s))

\* re.sub(r"\s+", " ", text): every run of whitespace becomes one space.
RECURSIVE CollapseWs(_)
CollapseWs(s) ==
  IF s = <<>> THEN <<>>
  ELSE IF Head(s) \in Whitespace
       THEN <<" ">> \o CollapseWs(LStrip(s))
       ELSE <<Head(s)>> \o CollapseWs(Tail(s))

normalize_text(value) == CollapseWs(Strip(value))

\* str.splitlines(): the pieces between line breaks; a final line break
\* opens no further line.
RECURSIVE SplitFrom(_, _)
SplitFrom(s, cur) ==
  IF s = <<>> THEN (IF cur = <<>> THEN <<>> ELSE <<cur>>)
  ELSE IF Head(s) = "\n" THEN <<cur>> \o SplitFrom(Tail(s), <<>>)
  ELSE SplitFrom(Tail(s), Append(cur, Head(s)))

splitlines(s) == SplitFrom(s, <<>>)

\* sub in s (both lower-cased by the caller where the code does)
Contains(s, sym) == \E i \in 1..Len(s) : s[i] = sym

LowerSeq(s) == [i \in 1..Len(s) |-> Lower(s[i])]

\* "rating" in text.lower()
HasRating(s) == Contains(LowerSeq(s), "rating")

\* int(text) on a string of decimal digits
RECURSIVE DigitsToInt(_, _)
DigitsToInt(s, acc) ==
  IF s = <<>> THEN acc ELSE DigitsToInt(Tail(s), 10 * acc + DigitVal(Head(s)))

AllDigits(s) == s # <<>> /\ \A i \in 1..Len(s) : s[i] \in Digits

\* int(value): surrounding whitespace and one sign are accepted, anything
\* else raises ValueError.
IntOk(s) ==
  LET t == Strip(s)
      u == IF t # <<>> /\ Head(t) \in {"-", "+"} THEN Tail(t) ELSE t
  IN AllDigits(u)

IntOf(s) ==
  LET t == Strip(s)
      neg == t # <<>> /\ Head(t) = "-"
      u == IF t # <<>> /\ Head(t) \in {"-", "+"} THEN Tail(t) ELSE t
  IN IF neg THEN 0 - DigitsToInt(u, 0) ELSE DigitsToInt(u, 0)

\* str(n) for an integer: no leading zeros, a minus sign when negative.
DigitSym(k) == IF k = 0 THEN "0" ELSE IF k = 1 THEN "1" ELSE IF k = 2 THEN "2"
               ELSE IF k = 3 THEN "3" ELSE IF k = 4 THEN "4" ELSE IF k = 5 THEN "5"
               ELSE IF k = 6 THEN "6" ELSE IF k = 7 THEN "7" ELSE IF k = 8 THEN "8"
               ELSE "9"

RECURSIVE NatToStr(_)
NatToStr(n) ==
  IF n < 10 THEN <<DigitSym(n)>> ELSE NatToStr(n \div 10) \o <<DigitSym(n % 10)>>

IntToStr(n) == IF n < 0 THEN <<"-">> \o NatToStr(0 - n) ELSE NatToStr(n)

(***************************************************************************)
(* Regular expressions                                                     *)
(***************************************************************************)
\* Pattern elements:
\*   <<"lit", s>>    the literal s (matched ignoring case)
\*   <<"lazy", g>>   (?P<g>.+?)     one or more symbols but "\n", shortest first
\*   <<"desc", g>>   (?P<g>[^)]*?)  any symbols but ")", shortest first
\*   <<"digits", g>> (?P<g>\d+)     one or more digits, longest first
\*   <<"ws", "">>    \s*            whitespace, longest first
\*   <<"opt", s>>    (?:s)?         the literal s if it is there, else nothing
\*   <<"end", "">>   (?:\.|$)       a full stop, else the end of the line
NoMatch == [ok |-> FALSE, caps |-> <<>>]

LitAt(line, pos, s) ==
  /\ pos + Len(s) - 1 <= Len(line)
  /\ \A i \in 1..Len(s) : Lower(line[pos + i - 1]) = s[i]

\* The longest run of symbols of the set cls starting at pos.
RECURSIVE RunLen(_, _, _)
RunLen(line, pos, cls) ==
  IF pos <= Len(line) /\ line[pos] \in cls THEN 1 + RunLen(line, pos + 1, cls) ELSE 0

RECURSIVE MatchAt(_, _, _, _, _)
RECURSIVE TryLazy(_, _, _, _, _, _, _)
RECURSIVE TryGreedy(_, _, _, _, _, _, _)

\* Element k of pat onwards against line from pos; caps are the groups so far.
MatchAt(pat, k, line, pos, caps) ==
  IF k > Len(pat) THEN [ok |-> TRUE, caps |-> caps]
  ELSE
    LET el == pat[k]
        ty == el[1]
    IN
    IF ty = "lit" THEN
      IF LitAt(line, pos, el[2]) THEN MatchAt(pat, k + 1, line, pos + Len(el[2]), caps)
      ELSE NoMatch
    ELSE IF ty = "lazy" THEN TryLazy(pat, k, line, pos, 1, caps, {"\n"})
    ELSE IF ty = "desc" THEN TryLazy(pat, k, line, pos, 0, caps, {")"})
    ELSE IF ty = "digits" THEN
      TryGreedy(pat, k, line, pos, RunLen(line, pos, Digits), caps, 1)
    ELSE IF ty = "ws" THEN
      TryGreedy(pat, k, line, pos, RunLen(line, pos, Whitespace), caps, 0)
    ELSE IF ty = "opt" THEN
      LET with == IF LitAt(line, pos, el[2])
                  THEN MatchAt(pat, k + 1, line, pos + Len(el[2]), caps)
                  ELSE NoMatch
      IN IF with.ok THEN with ELSE MatchAt(pat, k + 1, line, pos, caps)
    ELSE \* "end"
      LET dot == IF LitAt(line, pos, <<".">>)
                 THEN MatchAt(pat, k + 1, line, pos + 1, caps)
                 ELSE NoMatch
      IN IF dot.ok THEN dot
         ELSE IF pos = Len(line) + 1 THEN MatchAt(pat, k + 1, line, pos, caps)
         ELSE NoMatch

\* A lazy group of n symbols, then n + 1, ...; excl are the symbols the
\* group cannot hold.
TryLazy(pat, k, line, pos, n, caps, excl) ==
  IF pos + n - 1 > Len(line) THEN NoMatch
  ELSE IF n > 0 /\ line[pos + n - 1] \in excl THEN NoMatch
  ELSE
    LET r == MatchAt(pat, k + 1, line, pos + n,
                     (pat[k][2] :> SubSeq(line, pos, pos + n - 1)) @@ caps)
    IN IF r.ok THEN r ELSE TryLazy(pat, k, line, pos, n + 1, caps, excl)

\* A greedy run of n symbols, then n - 1, ... down to min.
TryGreedy(pat, k, line, pos, n, caps, min) ==
  IF n < min THEN NoMatch
  ELSE
    LET c == IF pat[k][1] = "digits"
             THEN (pat[k][2] :> SubSeq(line, pos, pos + n - 1)) @@ caps
             ELSE caps
        r == MatchAt(pat, k + 1, line, pos + n, c)
    IN IF r.ok THEN r ELSE TryGreedy(pat, k, line, pos, n - 1, caps, min)

\* pattern.search(line): the match at the leftmost start that has one.
RECURSIVE SearchFrom(_, _, _)
SearchFrom(pat, line, start) ==
  IF start > Len(line) + 1 THEN NoMatch
  ELSE LET r == MatchAt(pat, 1, line, start, <<>>)
       IN IF r.ok THEN r ELSE SearchFrom(pat, line, start + 1)

Search(pat, line) == SearchFrom(pat, line, 1)

(***************************************************************************)
(* The rating templates                                                    *)
(***************************************************************************)
Paren == <<<<"ws", "">>, <<"lit", <<"(">>>>, <<"desc", "ticket_desc">>, <<"lit", <<")">>>>>>

OnTicket == <<<<"lit", <<" ", "on", " ", "ticket#", " ">>>>, <<"digits", "ticket_id">>>> \o Paren

ForTicket == <<<<"lit", <<" ", "for", " ", "ticket#", " ">>>>, <<"digits", "ticket_id">>>> \o Paren

CustomerFrom == <<<<"lazy", "customer">>, <<"lit", <<" ", "from", " ">>>>>>

CompanyGave == <<<<"lazy", "company">>, <<"lit", <<" ", "gave a", " ">>>>, <<"lazy", "rating">>>>

RatingTo == <<<<"lit", <<" ", "rating", " ", "to", " ">>>>, <<"lazy", "employee">>>>

ToColleague == <<<<"ws", "">>, <<"lit", <<"to", " ">>>>, <<"opt", <<"your colleague", " ">>>>,
                 <<"lazy", "employee">>, <<"end", "">>>>

Categories == <<<<"lit", <<" ", "for", " ">>>>, <<"lazy", "categories">>>>

RatingFor == <<<<"lit", <<" ", "rating", " ", "for", " ">>>>, <<"lazy", "categories">>>>

RatingForTicket == <<<<"lit", <<" ", "rating", " ", "for", " ", "ticket#", " ">>>>,
                     <<"digits", "ticket_id">>>> \o Paren

RATING_PATTERNS == <<
  CustomerFrom \o CompanyGave \o RatingTo \o Categories \o OnTicket,
  CustomerFrom \o CompanyGave \o RatingFor \o OnTicket \o ToColleague,
  CompanyGave \o RatingTo \o Categories \o OnTicket,
  CustomerFrom \o CompanyGave \o RatingTo \o ForTicket,
  CompanyGave \o RatingTo \o ForTicket,
  CompanyGave \o RatingForTicket \o ToColleague >>

\* TICKET_ID_PATTERN: ticket#\s*(\d+)
TICKET_ID_PATTERN == <<<<"lit", <<"ticket#">>>>, <<"ws", "">>, <<"digits", "ticket_id">>>>

(***************************************************************************)
(* match_rating_line                                                       *)
(***************************************************************************)
\* [line.strip() for line in full_body.splitlines() if "rating" in line.lower()]
RECURSIVE RatingLines(_)
RatingLines(ls) ==
  IF ls = <<>> THEN <<>>
  ELSE IF HasRating(Head(ls)) THEN <<Strip(Head(ls))>> \o RatingLines(Tail(ls))
  ELSE RatingLines(Tail(ls))

cleaned_lines(full_body) == RatingLines(splitlines(full_body))

\* {k: normalize_text(v) ...}
NormalizeData(r) ==
  [ok |-> TRUE, caps |-> [g \in DOMAIN r.caps |-> normalize_text(r.caps[g])]]

\* for pattern in RATING_PATTERNS: from pattern p on, on one line
RECURSIVE MatchPatterns(_, _)
MatchPatterns(line, p) ==
  IF p > Len(RATING_PATTERNS) THEN NoMatch
  ELSE LET r == Search(RATING_PATTERNS[p], line)
       IN IF r.ok THEN NormalizeData(r) ELSE MatchPatterns(line, p + 1)

\* The two loops the other way round: each template over all the lines.
RECURSIVE FirstLineOf(_, _, _)
FirstLineOf(ls, l, p) ==
  IF l > Len(ls) THEN NoMatch
  ELSE LET r == Search(RATING_PATTERNS[p], ls[l])
       IN IF r.ok THEN NormalizeData(r) ELSE FirstLineOf(ls, l + 1, p)

RECURSIVE MatchLines_TemplateMajor(_, _)
MatchLines_TemplateMajor(ls, p) ==
  IF p > Len(RATING_PATTERNS) THEN NoMatch
  ELSE LET r == FirstLineOf(ls, 1, p)
       IN IF r.ok THEN r ELSE MatchLines_TemplateMajor(ls, p + 1)

\* for line in cleaned_lines: from line l on
RECURSIVE MatchLines(_, _)
MatchLines(ls, l) ==
  IF l > Len(ls) THEN NoMatch
  ELSE LET r == MatchPatterns(ls[l], 1)
       IN IF r.ok THEN r ELSE MatchLines(ls, l + 1)

match_rating_line(full_body) == MatchLines(cleaned_lines(full_body), 1)

(***************************************************************************)
(* Inputs: notification sentences, lines and bodies                        *)
(***************************************************************************)
\* At most this many lines in a body given to match_rating_line alone.
MaxLines == 2

TicketA == <<"1">>

TicketB == <<"0", "2">>

Sp == <<" ">>

From(cu, co) == cu \o <<" ", "from", " ">> \o co

Gave(co, r) == co \o <<" ", "gave a", " ">> \o r

Tk(t, d) == <<"ticket#", " ">> \o t \o <<" ", "(">> \o d \o <<")">>

\* "Name from Company gave a Positive rating to Tech for Categories on ticket# 123 (Description)."
Sentence1(t) ==
  From(<<"x">>, Gave(<<"z">>, <<"Positive">>)) \o <<" ", "rating", " ", "to", " ", "b">>
    \o <<" ", "for", " ", "q", " ", "on", " ">> \o Tk(t, <<"d">>) \o <<".">>

\* "... gave a Positive Rating for Categories on ticket# 123 (Description) to your colleague Tech."
Sentence2(t) ==
  From(<<"x">>, Gave(<<"z">>, <<"Positive">>)) \o <<" ", "Rating", " ", "for", " ", "q", " ", "on", " ">>
    \o Tk(t, <<"d">>) \o <<" ", "to", " ", "your colleague", " ", "b", ".">>

\* "Company gave a Positive rating to Tech for Categories on ticket# 123 (Description)."
Sentence3(t) ==
  Gave(<<"z">>, <<"Positive">>) \o <<" ", "rating", " ", "to", " ", "b">>
    \o <<" ", "for", " ", "q", " ", " ", "q", " ", "on", " ">> \o Tk(t, <<"d">>)

\* "Name from Company gave a Positive rating to Tech for ticket# 123 (Description)."
Sentence4(t) ==
  From(<<"x", " ", " ", "x">>, Gave(<<"z">>, <<"Positive">>)) \o <<" ", "rating", " ", "to", " ", "b">>
    \o <<" ", "for", " ">> \o Tk(t, <<" ", "d", " ">>)

\* "Company gave a Positive rating to Tech for ticket# 123 (Description)."
Sentence5(t) ==
  Gave(<<"z">>, <<"Negative">>) \o <<" ", "rating", " ", "to", " ", "b">>
    \o <<" ", "for", " ">> \o Tk(t, <<>>)

\* "Company gave a Positive Rating for ticket# 123 (Description) to Tech."
Sentence6(t) ==
  Gave(<<"z">>, <<"Positive">>) \o <<" ", "Rating", " ", "for", " ">> \o Tk(t, <<"d">>)
    \o <<" ", "to", " ", "b">>

\* Lines that fit no template: with and without a ticket, with and without "rating".
Junk1(t) == <<"x", " ", "rating", " ", "ticket#", " ">> \o t

Junk2 == <<"Rating", " ", "x">>

Junk3(t) == <<"ticket#">> \o t \o <<" ", "x">>

Phrases ==
  {Sentence1(TicketA), Sentence2(TicketB), Sentence3(TicketB), Sentence4(TicketA),
   Sentence5(TicketA), Sentence6(TicketB), Junk1(TicketA), Junk2, Junk3(TicketB)}

\* The lines of one sentence or of two with a space between them.
Lines == Phrases \cup {p \o Sp \o q : p \in Phrases, q \in Phrases}

\* Bodies for match_rating_line: some lines indented, some followed by a second line.
SecondLines == {Sentence3(TicketA), Sentence4(TicketB), Junk2}

RECURSIVE BodiesOf(_)
BodiesOf(n) ==
  IF n <= 1 THEN Phrases
  ELSE BodiesOf(n - 1) \cup {b \o <<"\n">> \o l : b \in BodiesOf(n - 1), l \in SecondLines}

MatchBodies ==
  Lines \cup {Sp \o p \o Sp : p \in Phrases} \cup BodiesOf(MaxLines)

(***************************************************************************)
(* coalesce, build_summary                                                 *)
(***************************************************************************)
\* Python's None among the values of a match: a one-symbol text no input holds.
None == <<"<None>">>

\* dict.get(key)
Get(d, key) == IF key \in DOMAIN d THEN d[key] ELSE None

\* coalesce(*values, default): the first value that is not None and not
\* blank once stripped, stripped; else the default.
RECURSIVE coalesce_NoStrip(_, _)
coalesce_NoStrip(values, default) ==
  IF values = <<>> THEN default
  ELSE IF Head(values) = None THEN coalesce_NoStrip(Tail(values), default)
  ELSE IF Strip(Head(values)) # <<>> THEN Head(values)
  ELSE coalesce_NoStrip(Tail(values), default)

RECURSIVE coalesce(_, _)
coalesce(values, default) ==
  IF values = <<>> THEN default
  ELSE IF Head(values) = None THEN coalesce(Tail(values), default)
  ELSE IF Strip(Head(values)) # <<>> THEN Strip(Head(values))
  ELSE coalesce(Tail(values), default)

\* a or b, on texts and None
Or(a, b) == IF a # None /\ a # <<>> THEN a ELSE b

SummarySentence(customer, company, rating, employee, categories, ticket_number, ticket_desc) ==
  customer \o <<" ", "from", " ">> \o company \o <<" ", "just gave a", " ">> \o rating
    \o <<" ", "rating", " ", "to", " ">> \o employee \o <<" ", "for", " ">> \o categories
    \o <<" ", "on", " ", "ticket#", " ">> \o IntToStr(ticket_number)
    \o <<" ", "(">> \o ticket_desc \o <<")", ".">>

NoEntry == [kind |-> "None", ticket_number |-> 0, summary |-> <<>>, customer_feedback |-> <<>>]

Raised == [kind |-> "ValueError", ticket_number |-> 0, summary |-> <<>>, customer_feedback |-> <<>>]

\* build_summary(match_data): a SurveyEntry, None, or the ValueError int() raises.
build_summary(md) ==
  LET ticket_number == Or(Get(md, "ticket_id"), Get(md, "ticket_number"))
  IN
  IF ticket_number = None \/ ticket_number = <<>> THEN NoEntry
  ELSE IF ~IntOk(ticket_number) THEN Raised
  ELSE
    [kind |-> "SurveyEntry",
     ticket_number |-> IntOf(ticket_number),
     summary |-> SummarySentence(
        coalesce(<<Get(md, "customer")>>, <<"A customer">>),
        coalesce(<<Get(md, "company")>>, <<"Unknown company">>),
        coalesce(<<Get(md, "rating")>>, <<"Positive">>),
        coalesce(<<Get(md, "employee")>>, <<"Unknown technician">>),
        coalesce(<<Get(md, "categories")>>, <<"(categories not provided)">>),
        IntOf(ticket_number),
        coalesce(<<Get(md, "ticket_desc")>>, <<>>)),
     customer_feedback |-> <<>>]

(***************************************************************************)
(* extract_feedback                                                        *)
(***************************************************************************)
NoFeedback == <<"No feedback provided.">>

\* FEEDBACK_PATTERN: Customer feedback:\s*(.*), ignoring case, "." matching "\n" too
RECURSIVE MarkerAt(_, _)
MarkerAt(s, i) ==
  IF i > Len(s) THEN 0
  ELSE IF Lower(s[i]) = "customer feedback:" THEN i ELSE MarkerAt(s, i + 1)

\* text.split("\n\n", 1)[0]
RECURSIVE BeforeBlankLine(_, _)
BeforeBlankLine(s, i) ==
  IF i >= Len(s) THEN s
  ELSE IF s[i] = "\n" /\ s[i + 1] = "\n" THEN SubSeq(s, 1, i - 1)
  ELSE BeforeBlankLine(s, i + 1)

\* \bClick here\b|Regards, matches at i
BoilerplateAt(s, i) ==
  \/ s[i] = "Regards,"
  \/ /\ s[i] = "Click here"
     /\ i = 1 \/ s[i - 1] \in NonWordEnd
     /\ i = Len(s) \/ s[i + 1] \in NonWordStart

\* re.split(r"\bClick here\b|Regards,", text, 1)[0]
RECURSIVE BeforeBoilerplate(_, _)
BeforeBoilerplate(s, i) ==
  IF i > Len(s) THEN s
  ELSE IF BoilerplateAt(s, i) THEN SubSeq(s, 1, i - 1)
  ELSE BeforeBoilerplate(s, i + 1)

\* " ".join(line.strip() for line in lines if line.strip())
RECURSIVE JoinStripped(_)
JoinStripped(ls) ==
  IF ls = <<>> THEN <<>>
  ELSE LET rest == JoinStripped(Tail(ls))
           h == Strip(Head(ls))
       IN IF h = <<>> THEN rest
          ELSE IF rest = <<>> THEN h
          ELSE h \o <<" ">> \o rest

extract_feedback(full_body) ==
  LET m == MarkerAt(full_body, 1)
      after == SubSeq(full_body, m + 1, Len(full_body))
      group1 == SubSeq(after, RunLen(after, 1, Whitespace) + 1, Len(after))
      unquoted == StripQuote(Strip(group1))
      para == BeforeBlankLine(unquoted, 1)
      cut == BeforeBoilerplate(para, 1)
      feedback == JoinStripped(splitlines(cut))
  IN IF m = 0 THEN NoFeedback
     ELSE IF feedback = <<>> THEN NoFeedback ELSE feedback

(***************************************************************************)
(* parse_crewhu_data                                                       *)
(***************************************************************************)
\* At most this many notifications in the input file.
MaxEmails == 3

TicketC == <<"0", "1">>

TicketD == <<"1", "0">>

Body1 ==
  Sentence1(TicketA) \o <<"\n", "Customer feedback:", " ", "\"", "x", " ", "y", "\"", "\n", "\n", "Regards,">>

Body2 == Sentence3(TicketB)

Body3 ==
  Sentence4(TicketC) \o <<"\n", "Customer Feedback:", "\n", "z", " ", "Click here", " ", "x">>

Body4 == Junk1(TicketA)

Body5 == <<"x", " ", "rating", "\n">> \o Junk3(TicketB)

Body6 == Junk2

Body7 == Sentence5(TicketD) \o <<"\n", "Customer feedback:", " ", "\n", "Regards,">>

Body8 == Junk1(TicketD) \o <<"\n">> \o Junk1(TicketA)

DriverBodies == {Body1, Body2, Body3, Body4, Body5, Body6, Body7, Body8}

RatingSubject == <<"New", " ", "Rating", "!">>

OtherSubject == <<"Your", " ", "survey">>

EmailLibrary ==
  {[Subject |-> RatingSubject, FullBody |-> b] : b \in DriverBodies}
    \cup {[Subject |-> OtherSubject, FullBody |-> b] : b \in {Body1, Body4}}

\* The three functions of the body the loop calls, computed once per body.
MatchOfBody == [b \in DriverBodies |-> match_rating_line(b)]

RawTicketOfBody == [b \in DriverBodies |-> Search(TICKET_ID_PATTERN, b)]

FeedbackOfBody == [b \in DriverBodies |-> extract_feedback(b)]

EntryOfBody ==
  [b \in DriverBodies |-> IF MatchOfBody[b].ok THEN build_summary(MatchOfBody[b].caps) ELSE NoEntry]

Min(S) == CHOOSE x \in S : \A y \in S : x <= y

Max(S) == CHOOSE x \in S : \A y \in S : y <= x

\* The dictionary's values in another order than the sorted one.
RECURSIVE SortedByTicket_Desc(_, _)
SortedByTicket_Desc(d, keys) ==
  IF keys = {} THEN <<>>
  ELSE <<d[Max(keys)]>> \o SortedByTicket_Desc(d, keys \ {Max(keys)})

\* sorted(surveys.values(), key=lambda x: x.ticket_number)
RECURSIVE SortedByTicket(_, _)
SortedByTicket(d, keys) ==
  IF keys = {} THEN <<>>
  ELSE <<d[Min(keys)]>> \o SortedByTicket(d, keys \ {Min(keys)})

\* sorted(set(missed))
RECURSIVE SortedSet(_)
SortedSet(S) == IF S = {} THEN <<>> ELSE <<Min(S)>> \o SortedSet(S \ {Min(S)})

Range(q) == {q[i] : i \in DOMAIN q}

Init ==
  /\ emails \in UNION {[1..n -> EmailLibrary] : n \in 0..MaxEmails}
  /\ idx = 1
  /\ surveys = <<>>
  /\ missed = <<>>
  /\ pc = "loop"
  /\ sorted_entries = <<>>
  /\ report = <<>>
  /\ body = <<>> /\ match_data = <<>> /\ result = NoEntry
  /\ DRY_RUN = TRUE /\ resp = <<>> /\ patches = <<>> /\ returned = ""

\* if "rating" not in subject.lower(): continue
SkipSubject_Body(subject, full_body) == ~HasRating(full_body)

SkipSubject(subject, full_body) == ~HasRating(subject)

\* if ticket_num not in surveys: missed.append(ticket_num)
RecordUnmatched_Inverted(m, s, ticket_num) ==
  IF ticket_num \in DOMAIN s THEN Append(m, ticket_num) ELSE m

RecordUnmatched_Always(m, s, ticket_num) == Append(m, ticket_num)

RecordUnmatched(m, s, ticket_num) ==
  IF ticket_num \notin DOMAIN s THEN Append(m, ticket_num) ELSE m

\* surveys[survey_entry.ticket_number] = survey_entry
Upsert_KeepFirst(s, survey_entry) == s @@ (survey_entry.ticket_number :> survey_entry)

Upsert(s, survey_entry) == (survey_entry.ticket_number :> survey_entry) @@ s

\* One turn of "for email in emails".
ProcessEmail ==
  /\ pc = "loop"
  /\ idx <= Len(emails)
  /\ LET subject == emails[idx].Subject
         full_body == emails[idx].FullBody
         md == MatchOfBody[full_body]
         raw_ticket == RawTicketOfBody[full_body]
         survey_entry == EntryOfBody[full_body]
     IN
     IF SkipSubject(subject, full_body) THEN
       /\ idx' = idx + 1
       /\ UNCHANGED <<surveys, missed, pc>>
     ELSE IF ~md.ok THEN
       /\ missed' = IF raw_ticket.ok
                    THEN RecordUnmatched(missed, surveys, IntOf(raw_ticket.caps["ticket_id"]))
                    ELSE missed
       /\ idx' = idx + 1
       /\ UNCHANGED <<surveys, pc>>
     ELSE IF survey_entry.kind = "ValueError" THEN
       /\ pc' = "raised"
       /\ UNCHANGED <<idx, surveys, missed>>
     ELSE IF survey_entry.kind = "None" THEN
       /\ idx' = idx + 1
       /\ UNCHANGED <<surveys, missed, pc>>
     ELSE
       /\ surveys' = Upsert(surveys, [survey_entry EXCEPT
                                        !.customer_feedback = FeedbackOfBody[full_body]])
       /\ idx' = idx + 1
       /\ UNCHANGED <<missed, pc>>
  /\ UNCHANGED <<emails, sorted_entries, report, body, match_data, result,
                 DRY_RUN, resp, patches, returned>>

\* After the loop: the sorted output and the report of missed tickets.
Finalize ==
  /\ pc = "loop"
  /\ idx > Len(emails)
  /\ sorted_entries' = SortedByTicket(surveys, DOMAIN surveys)
  /\ report' = IF missed # <<>> THEN SortedSet(Range(missed)) ELSE <<>>
  /\ pc' = "done"
  /\ UNCHANGED <<emails, idx, surveys, missed, body, match_data, result,
                 DRY_RUN, resp, patches, returned>>

Next == ProcessEmail \/ Finalize

Spec == Init /\ [][Next]_vars

(***************************************************************************)
(* match_rating_line called on its own                                     *)
(***************************************************************************)
Idle ==
  /\ emails = <<>> /\ idx = 1 /\ surveys = <<>> /\ missed = <<>>
  /\ sorted_entries = <<>> /\ report = <<>>

InitMatch ==
  /\ Idle
  /\ pc = "call"
  /\ body \in MatchBodies
  /\ match_data = NoMatch /\ result = NoEntry
  /\ DRY_RUN = TRUE /\ resp = <<>> /\ patches = <<>> /\ returned = ""

CallMatch ==
  /\ pc = "call"
  /\ match_data' = match_rating_line(body)
  /\ pc' = "returned"
  /\ UNCHANGED <<emails, idx, surveys, missed, sorted_entries, report, body, result,
                 DRY_RUN, resp, patches, returned>>

NextMatch == CallMatch

SpecMatch == InitMatch /\ [][NextMatch]_vars

(***************************************************************************)
(* build_summary called on its own                                         *)
(***************************************************************************)
FieldKeys == {"customer", "company", "rating", "employee", "categories", "ticket_desc"}

FieldValues == {None, <<" ">>, <<" ", "x", " ", "y", "\n">>}

TicketIdValues ==
  {None, <<>>, <<"1">>, <<"0", "2">>, <<" ", "2", " ">>, <<"-", "1">>, <<"1", "x">>, <<"x">>, <<" ">>}

TicketInputs ==
  {<<>>, [ticket_number |-> <<"2">>]}
    \cup {[ticket_id |-> t] : t \in TicketIdValues}
    \cup {[ticket_id |-> t, ticket_number |-> <<"2">>] : t \in {None, <<>>, <<"x">>}}

InitBuild ==
  /\ Idle
  /\ pc = "call"
  /\ body = <<>>
  /\ \E D \in SUBSET FieldKeys : \E f \in [D -> FieldValues] : \E t \in TicketInputs :
       match_data = f @@ t
  /\ result = NoEntry
  /\ DRY_RUN = TRUE /\ resp = <<>> /\ patches = <<>> /\ returned = ""

CallBuild ==
  /\ pc = "call"
  /\ result' = build_summary(match_data)
  /\ pc' = "returned"
  /\ UNCHANGED <<emails, idx, surveys, missed, sorted_entries, report, body, match_data,
                 DRY_RUN, resp, patches, returned>>

NextBuild == CallBuild

SpecBuild == InitBuild /\ [][NextBuild]_vars

(***************************************************************************)
(* update_ticket_crewhu_field (src/updatelinks.py)                         *)
(***************************************************************************)
\* At most this many custom fields on a ticket.
MaxFields == 2

\* A URL SURVEY_LINK_PATTERN matches whole, and the pattern's fixed prefix
\* with nothing after it.
SurveyLink == "https://web.crewhu.com/#/managesurvey/form/abc"

LinkPrefix == "https://web.crewhu.com/#/managesurvey/form/"

\* SURVEY_LINK_PATTERN.search(text): the prefix and at least one symbol of [^\s<>"']
HasLink(text) ==
  \E i \in 1..Len(text) :
    \/ text[i] = SurveyLink
    \/ /\ text[i] = LinkPrefix
       /\ i < Len(text)
       /\ text[i + 1] \notin Whitespace \cup {"<", ">", "\"", "'"}

Captions == {<<"Latest", " ", "Crewhu", " ", "Survey">>, <<"My", " ", "CrewHu">>, <<"Notes">>}

Values == {None, <<>>, <<" ">>, <<"x">>, <<" ", SurveyLink>>, <<LinkPrefix>>, <<LinkPrefix, "x">>}

CustomFields == [caption : Captions, value : Values]

Responses ==
  [status_code : {200, 404},
   customFields : UNION {[1..n -> CustomFields] : n \in 0..MaxFields},
   patch_status : {204, 500}]

\* "crewhu" in caption.lower() or caption.lower() == "latest crewhu survey"
IsCrewhuField(f) ==
  \/ Contains(LowerSeq(f.caption), "crewhu")
  \/ LowerSeq(f.caption) = <<"latest", " ", "crewhu", " ", "survey">>

\* fields.index(field): the first position holding an equal field, from 0
RECURSIVE IndexOf(_, _, _)
IndexOf(fields, field, i) ==
  IF fields[i] = field THEN i - 1 ELSE IndexOf(fields, field, i + 1)

\* field = candidates[-1]
ChosenField_First(candidates) == candidates[1]

ChosenField(candidates) == candidates[Len(candidates)]

InitCrm ==
  /\ Idle
  /\ pc = "call"
  /\ body = <<>> /\ match_data = <<>> /\ result = NoEntry
  /\ DRY_RUN \in BOOLEAN
  /\ resp \in Responses
  /\ patches = <<>>
  /\ returned = ""

update_ticket_crewhu_field ==
  /\ pc = "call"
  /\ pc' = "returned"
  /\ LET fields == resp.customFields
         candidates == SelectSeq(fields, IsCrewhuField)
         field == ChosenField(candidates)
         current_val == Strip(Or(field.value, <<>>))
     IN
     IF resp.status_code # 200 THEN
       returned' = "ERROR GET" /\ UNCHANGED patches
     ELSE IF candidates = <<>> THEN
       returned' = "No Crewhu custom field found" /\ UNCHANGED patches
     ELSE IF HasLink(current_val) THEN
       returned' = "SKIP - Field already contains link" /\ UNCHANGED patches
     ELSE IF current_val # <<>> THEN
       returned' = "SKIP - Field not empty" /\ UNCHANGED patches
     ELSE IF DRY_RUN THEN
       returned' = "DRY RUN - No update sent" /\ UNCHANGED patches
     ELSE
       /\ patches' = Append(patches, [op |-> "replace",
                                      path |-> IndexOf(fields, field, 1),
                                      value |-> <<SurveyLink>>])
       /\ returned' = IF resp.patch_status \in {200, 204} THEN "UPDATED" ELSE "PATCH ERROR"
  /\ UNCHANGED <<emails, idx, surveys, missed, sorted_entries, report, body, match_data,
                 result, DRY_RUN, resp>>

NextCrm == update_ticket_crewhu_field

SpecCrm == InitCrm /\ [][NextCrm]_vars

(***************************************************************************)
(* Properties                                                              *)
(***************************************************************************)
\* The templates that match a line, each tried on its own.
TemplateHits(line) == {p \in 1..Len(RATING_PATTERNS) : Search(RATING_PATTERNS[p], line).ok}

\* The lines of a body that hold "rating", by their position in the body.
RatingLineIdx(b) == {i \in 1..Len(splitlines(b)) : HasRating(splitlines(b)[i])}

LineAt(b, i) == Strip(splitlines(b)[i])

\* Whether some line of the body that holds "rating" fits some template.
FitsSomeTemplate == [b \in DriverBodies |-> \E i \in RatingLineIdx(b) : TemplateHits(LineAt(b, i)) # {}]

\* The digits after the "ticket#" at i, whitespace between them skipped.
DigitsAfter(b, i) ==
  LET j == i + 1 + RunLen(b, i + 1, Whitespace)
  IN SubSeq(b, j, j + RunLen(b, j, Digits) - 1)

TicketStarts(b) == {i \in 1..Len(b) : Lower(b[i]) = "ticket#" /\ DigitsAfter(b, i) # <<>>}

\* The number of the first "ticket# N" of a body, -1 when it has none.
FirstTicket ==
  [b \in DriverBodies |->
     IF TicketStarts(b) = {} THEN -1 ELSE DigitsToInt(DigitsAfter(b, Min(TicketStarts(b))), 0)]

\* A notification that leads to a record, and the record it leads to.
Produces(e) ==
  /\ HasRating(e.Subject)
  /\ FitsSomeTemplate[e.FullBody]
  /\ EntryOfBody[e.FullBody].kind = "SurveyEntry"

RecordOf(e) ==
  [EntryOfBody[e.FullBody] EXCEPT !.customer_feedback = FeedbackOfBody[e.FullBody]]

Producers == {i \in 1..Len(emails) : Produces(emails[i])}

LastFor(t) == Max({i \in Producers : RecordOf(emails[i]).ticket_number = t})

\* C1: the output holds exactly one record per ticket number that some
\* notification produced a record for, and it is the record (summary and
\* feedback) of the last such notification.
C1_LastWins ==
  pc = "done" =>
    /\ {sorted_entries[k].ticket_number : k \in 1..Len(sorted_entries)}
         = {RecordOf(emails[i]).ticket_number : i \in Producers}
    /\ Len(sorted_entries) = Cardinality({RecordOf(emails[i]).ticket_number : i \in Producers})
    /\ \A k \in 1..Len(sorted_entries) :
         sorted_entries[k] = RecordOf(emails[LastFor(sorted_entries[k].ticket_number)])

\* Two notifications produced different records for one ticket; the run is over.
C1_Witness ==
  /\ pc = "done"
  /\ \E i, j \in Producers :
       /\ i < j
       /\ RecordOf(emails[i]).ticket_number = RecordOf(emails[j]).ticket_number
       /\ RecordOf(emails[i]) # RecordOf(emails[j])
       /\ RecordOf(emails[j]) \in Range(sorted_entries)

\* C2: the records of the output are in strictly ascending order of
\* ticket_number, whatever the order of the input.
C2_SortedAscending ==
  pc = "done" =>
    \A k \in 1..(Len(sorted_entries) - 1) :
      sorted_entries[k].ticket_number < sorted_entries[k + 1].ticket_number

\* Three records came out of notifications given in descending ticket order.
C2_Witness ==
  /\ pc = "done"
  /\ Len(sorted_entries) = 3
  /\ Len(emails) = 3
  /\ \A i \in 1..2 : RecordOf(emails[i]).ticket_number > RecordOf(emails[i + 1]).ticket_number

\* C3: processing a notification whose Subject lacks "rating" changes
\* neither the records nor the unmatched list, whatever its body holds.
C3_SkipLeavesStore ==
  [][(pc = "loop" /\ idx <= Len(emails) /\ ~HasRating(emails[idx].Subject))
       => (surveys' = surveys /\ missed' = missed)]_vars

\* A notification without "rating" in its Subject, whose body fits a
\* template, was processed after a record had been stored.
C3_Witness ==
  /\ idx > 2
  /\ ~HasRating(emails[idx - 1].Subject)
  /\ FitsSomeTemplate[emails[idx - 1].FullBody]
  /\ DOMAIN surveys # {}
  /\ RecordOf(emails[idx - 1]).ticket_number \notin DOMAIN surveys

\* C4: a notification with a rating Subject that fits no template leaves
\* the records as they are, and the first "ticket# N" of its body is
\* appended to the unmatched list exactly when no record for N is stored;
\* without a "ticket# N" nothing is recorded.
C4_UnmatchedRecorded ==
  [][(pc = "loop" /\ idx <= Len(emails) /\ HasRating(emails[idx].Subject)
        /\ ~FitsSomeTemplate[emails[idx].FullBody])
       => /\ surveys' = surveys
          /\ missed' = IF FirstTicket[emails[idx].FullBody] >= 0
                          /\ FirstTicket[emails[idx].FullBody] \notin DOMAIN surveys
                       THEN Append(missed, FirstTicket[emails[idx].FullBody])
                       ELSE missed]_vars

\* An unmatched notification was processed when its ticket already had a
\* record, after the same ticket had been recorded as unmatched earlier.
C4_Witness ==
  /\ idx > 3
  /\ HasRating(emails[idx - 1].Subject)
  /\ ~FitsSomeTemplate[emails[idx - 1].FullBody]
  /\ FirstTicket[emails[idx - 1].FullBody] \in DOMAIN surveys
  /\ missed = <<FirstTicket[emails[idx - 1].FullBody]>>

\* The ticket identifier build_summary reads: ticket_id, else ticket_number.
TicketField(md) == Or(Get(md, "ticket_id"), Get(md, "ticket_number"))

\* C5: build_summary, given a ticket identifier that is no integer, yields
\* no record and raises nothing.
C5_MalformedSkipped ==
  (pc = "returned" /\ TicketField(match_data) \notin {None, <<>>} /\ ~IntOk(TicketField(match_data)))
    => result.kind = "None"

\* For each line of a body holding "rating", the templates that match it.
HitsOf(b) == [i \in RatingLineIdx(b) |-> TemplateHits(LineAt(b, i))]

\* C6: a line that a customer-and-company template (1, 2, 4) matches and a
\* company-only template (3, 5, 6) matches too gives a match with a customer.
C6_CustomerTemplateWins ==
  (pc = "returned" /\ Cardinality(RatingLineIdx(body)) = 1) =>
    LET hits == TemplateHits(LineAt(body, Min(RatingLineIdx(body))))
    IN (hits \cap {1, 2, 4} # {} /\ hits \cap {3, 5, 6} # {})
         => (match_data.ok /\ "customer" \in DOMAIN match_data.caps)

\* C7: match_rating_line returns the match of the lowest template that
\* matches the earliest line holding "rating" that any template matches,
\* its groups normalized, and None exactly when no such line fits a template.
C7_FirstLineFirstTemplate ==
  pc = "returned" =>
    LET hits == HitsOf(body)
        hitLines == {i \in DOMAIN hits : hits[i] # {}}
    IN IF hitLines = {} THEN ~match_data.ok
       ELSE LET l == Min(hitLines)
                p == Min(hits[l])
                m == Search(RATING_PATTERNS[p], LineAt(body, l))
            IN /\ match_data.ok
               /\ DOMAIN match_data.caps = DOMAIN m.caps
               /\ \A g \in DOMAIN m.caps : match_data.caps[g] = normalize_text(m.caps[g])

\* The first line that fits a template fits only a later template than a
\* line after it does, and the first line's match was returned.
C7_Witness ==
  /\ pc = "returned"
  /\ match_data.ok
  /\ Len(splitlines(body)) > 1
  /\ LET hits == HitsOf(body)
         hitLines == {i \in DOMAIN hits : hits[i] # {}}
     IN \E i \in hitLines :
          /\ i > Min(hitLines)
          /\ Min(hits[i]) < Min(hits[Min(hitLines)])

Blank(v) == \A i \in 1..Len(v) : v[i] \in Whitespace

\* A field of the match, trimmed, or its default when absent, None or blank.
FieldOr(md, key, default) ==
  IF key \notin DOMAIN md \/ md[key] = None \/ Blank(md[key]) THEN default
  ELSE Strip(md[key])

\* C8: with a ticket identifier that is an integer, build_summary gives
\* the record whose summary is the fixed sentence over the trimmed fields,
\* each absent, None or blank field replaced by its default, and whose
\* customer_feedback is empty.
C8_DefaultsAndSentence ==
  (pc = "returned" /\ TicketField(match_data) \notin {None, <<>>} /\ IntOk(TicketField(match_data)))
    => /\ result.kind = "SurveyEntry"
       /\ result.ticket_number = IntOf(TicketField(match_data))
       /\ result.customer_feedback = <<>>
       /\ result.summary =
            FieldOr(match_data, "customer", <<"A customer">>) \o <<" ", "from", " ">>
              \o FieldOr(match_data, "company", <<"Unknown company">>) \o <<" ", "just gave a", " ">>
              \o FieldOr(match_data, "rating", <<"Positive">>) \o <<" ", "rating", " ", "to", " ">>
              \o FieldOr(match_data, "employee", <<"Unknown technician">>) \o <<" ", "for", " ">>
              \o FieldOr(match_data, "categories", <<"(categories not provided)">>)
              \o <<" ", "on", " ", "ticket#", " ">> \o IntToStr(result.ticket_number) \o <<" ", "(">>
              \o FieldOr(match_data, "ticket_desc", <<>>) \o <<")", ".">>

\* A record was built from a match without company, with a blank rating,
\* a None employee and a customer to trim, under a ticket written "02".
C8_Witness ==
  /\ pc = "returned"
  /\ result.kind = "SurveyEntry"
  /\ result.ticket_number = 2
  /\ "company" \notin DOMAIN match_data
  /\ DOMAIN match_data = {"ticket_id", "customer", "rating", "employee"}
  /\ match_data["ticket_id"] = <<"0", "2">>
  /\ match_data["rating"] = <<" ">>
  /\ match_data["employee"] = None
  /\ match_data["customer"] = <<" ", "x", " ", "y", "\n">>

\* The positions of the Crewhu custom fields of the looked-up ticket.
CrewhuIdx == {i \in 1..Len(resp.customFields) : IsCrewhuField(resp.customFields[i])}

\* Whether the update may be sent: the lookup answered 200, a Crewhu field
\* exists, the last one is None or blank, and this is no dry run.
MaySend ==
  /\ resp.status_code = 200
  /\ CrewhuIdx # {}
  /\ LET v == resp.customFields[Max(CrewhuIdx)].value
     IN v = None \/ (Blank(v) /\ ~HasLink(v))
  /\ ~DRY_RUN

\* C9: update_ticket_crewhu_field sends one PATCH when the lookup answered
\* 200, a Crewhu field exists, its value is empty with no survey link in it
\* and DRY_RUN is off; in every other case it returns with no PATCH sent.
\* It returns, raising nothing, in all cases.
C9_PatchOnlyWhenEmpty ==
  pc = "returned" =>
    /\ Len(patches) = (IF MaySend THEN 1 ELSE 0)
    /\ MaySend => returned \in {"UPDATED", "PATCH ERROR"}
    /\ ~MaySend => returned \in {"ERROR GET", "No Crewhu custom field found",
                                 "SKIP - Field already contains link",
                                 "SKIP - Field not empty", "DRY RUN - No update sent"}

\* A PATCH was sent for a ticket with two Crewhu fields, the first of them filled.
C9_Witness ==
  /\ pc = "returned"
  /\ Len(patches) = 1
  /\ Cardinality(CrewhuIdx) = 2
  /\ resp.customFields[Min(CrewhuIdx)].value = <<"x">>

\* C10: a ticket recorded as unmatched stays in the list whatever is
\* processed later, a ticket is appended only while it has no record, and
\* the report lists the recorded tickets once each in ascending order.
C10_UnmatchedNeverRevised ==
  [][/\ Len(missed') >= Len(missed)
     /\ SubSeq(missed', 1, Len(missed)) = missed
     /\ \A k \in (Len(missed) + 1)..Len(missed') : missed'[k] \notin DOMAIN surveys
     /\ pc' = "done" =>
          /\ Range(report') = Range(missed')
          /\ \A k \in 1..(Len(report') - 1) : report'[k] < report'[k + 1]]_vars

\* The report names a ticket that has a record in the output, and a ticket
\* was recorded twice.
C10_Witness ==
  /\ pc = "done"
  /\ \E k \in 1..Len(report) : report[k] \in DOMAIN surveys
  /\ Len(missed) > Len(report)

====
